---- MODULE Spec2Model ----
(***************************************************************************)
(* Model of the Wortmann CSV import (process_csv_import and its helpers in *)
(* csv_import_wortmann_settings.py): reconciliation of correction rows,    *)
(* grouping by customer, validation and invoice assembly.                  *)
(*                                                                         *)
(* Strings are tuples of one-character strings (<<"-","2">> is "-2").      *)
(* Numbers are Python floats restricted to multiples of 0.1 and are held   *)
(* as integers counting tenths (15 is 1.5); the inputs use only the        *)
(* fractions ,0 and ,5 so that the float arithmetic of the code is exact.  *)
(* Row indices are the 0-based indices of the code.                        *)
(***************************************************************************)
EXTENDS Integers, Sequences, FiniteSets, TLC

\* largest number of data rows of the CSV file
MaxRows == 3

\* Python's None (the value csv.DictReader gives a field missing from a short line)
None == <<"None">>

DigitChars == <<"0", "1", "2", "3", "4", "5", "6", "7", "8", "9">>

IsDigit(c) == \E d \in 1..10 : DigitChars[d] = c

DigitVal(c) == (CHOOSE d \in 1..10 : DigitChars[d] = c) - 1

IsSpace(c) == c = " "

Abs(n) == IF n < 0 THEN -n ELSE n

\* str.replace(old, new) for one-character old and new
Replace(s, old, new) == [k \in 1..Len(s) |-> IF s[k] = old THEN new ELSE s[k]]

RECURSIVE LStrip(_)
LStrip(s) == IF s # <<>> /\ IsSpace(s[1]) THEN LStrip(Tail(s)) ELSE s

RECURSIVE RStrip(_)
RStrip(s) == IF s # <<>> /\ IsSpace(s[Len(s)]) THEN RStrip(SubSeq(s, 1, Len(s) - 1)) ELSE s

\* str.strip()
Strip(s) == RStrip(LStrip(s))

AllDigits(s) == \A k \in 1..Len(s) : IsDigit(s[k])

RECURSIVE DigitsToNat(_)
DigitsToNat(s) == IF s = <<>> THEN 0 ELSE 10 * DigitsToNat(SubSeq(s, 1, Len(s) - 1)) + DigitVal(s[Len(s)])

\* position of the first "." of s, Len(s)+1 when there is none
DotPos(s) == IF \E k \in 1..Len(s) : s[k] = "." THEN CHOOSE k \in 1..Len(s) : s[k] = "." /\ \A j \in 1..(k - 1) : s[j] # "." ELSE Len(s) + 1

\* float(s) accepts [sign] digits [. digits] with at least one digit
IsFloatLiteral(s) == LET b == IF s # <<>> /\ s[1] \in {"-", "+"} THEN Tail(s) ELSE s
                         ip == SubSeq(b, 1, DotPos(b) - 1)
                         fp == SubSeq(b, DotPos(b) + 1, Len(b))
                     IN  AllDigits(ip) /\ AllDigits(fp) /\ Len(ip) + Len(fp) > 0

\* float(s) in tenths, for a literal with at most one fractional digit
FloatOf(s) == LET neg == s # <<>> /\ s[1] = "-"
                  b == IF s # <<>> /\ s[1] \in {"-", "+"} THEN Tail(s) ELSE s
                  ip == SubSeq(b, 1, DotPos(b) - 1)
                  fp == SubSeq(b, DotPos(b) + 1, Len(b))
                  mag == 10 * DigitsToNat(ip) + (IF fp = <<>> THEN 0 ELSE DigitVal(fp[1]))
              IN  IF neg THEN -mag ELSE mag

\* frappe.utils.flt on a string (or None): drops "," then float(), 0.0 when that fails
flt(s) == LET t == Strip(SelectSeq(s, LAMBDA c : c # ","))
          IN  IF s = None THEN 0 ELSE IF IsFloatLiteral(t) THEN FloatOf(t) ELSE 0

convert_german_number(number_str) == IF number_str = None \/ number_str = <<>> THEN 0 ELSE flt(Replace(number_str, ",", "."))

RECURSIVE NatToDigits(_)
NatToDigits(n) == IF n < 10 THEN <<DigitChars[n + 1]>> ELSE Append(NatToDigits(n \div 10), DigitChars[(n % 10) + 1])

\* str(x) of a float x given in tenths: "3.0", "-0.5"
PyStr(x) == (IF x < 0 THEN <<"-">> ELSE <<>>) \o NatToDigits(Abs(x) \div 10) \o <<".">> \o NatToDigits(Abs(x) % 10)

match_fields_NoCustomer == {"ReferenceNumber", "ArticleNumber_Mandant"}

match_fields == {"CustomCustomerNr", "ReferenceNumber", "ArticleNumber_Mandant"}

Row(c, r, a, amt, price, total) == [CustomCustomerNr |-> c, ReferenceNumber |-> r, ArticleNumber_Mandant |-> a, Amount |-> amt, Price |-> price, TotalPrice |-> total]

K1 == <<"K", "1">>

K2 == <<"K", "2">>

ZZZ == <<"Z", "Z", "Z">>

R1 == <<"R", "1">>

A1 == <<"A", "1">>

A9 == <<"A", "9">>

\* the lines a CSV file is made of: a charge row and two correction rows of
\* one key, a short line of that key, a charge row of a second customer
\* (padded with a blank) at price zero, and rows with an unknown customer, an
\* unknown article and a blank customer
RowUniverse == { Row(K1, R1, A1, <<"2">>, <<"3">>, <<"6">>),
                 Row(K1, R1, A1, <<"-", "2">>, <<"3">>, <<"-", "6">>),
                 Row(K1, R1, A1, <<"-", "0", ",", "5">>, <<"3">>, <<"-", "1", ",", "5">>),
                 Row(K1, R1, A1, None, None, None),
                 Row(K2 \o <<" ">>, R1, A1, <<"1", ",", "5">>, <<"0">>, <<"0">>),
                 Row(ZZZ, R1, A1, <<"2">>, <<"3">>, <<"6">>),
                 Row(K1, R1, A9, <<"2">>, <<"3">>, <<"6">>),
                 Row(<<" ">>, R1, A1, <<"2">>, <<"3">>, <<"6">>) }

RowSeqs == UNION {[1..n -> RowUniverse] : n \in 1..MaxRows}

RowAt(all_rows, index) == all_rows[index + 1]

SameKey(a, b) == \A field \in match_fields : a[field] = b[field]

NoMatch == [found |-> FALSE, index |-> -1]

Match(index) == [found |-> TRUE, index |-> index]

InRange(all_rows, check_index) == 0 <= check_index /\ check_index < Len(all_rows)

IsPositivePartner_NonNegative(row, all_rows, check_index) == /\ InRange(all_rows, check_index)
                                                             /\ SameKey(row, RowAt(all_rows, check_index))
                                                             /\ convert_german_number(RowAt(all_rows, check_index).Amount) >= 0

IsPositivePartner(row, all_rows, check_index) == /\ InRange(all_rows, check_index)
                                                 /\ SameKey(row, RowAt(all_rows, check_index))
                                                 /\ convert_german_number(RowAt(all_rows, check_index).Amount) > 0

IsNegativePartner(row, all_rows, check_index) == /\ InRange(all_rows, check_index)
                                                 /\ SameKey(row, RowAt(all_rows, check_index))
                                                 /\ convert_german_number(RowAt(all_rows, check_index).Amount) < 0

find_corresponding_row_NextFirst(negative_row, all_rows, current_index) ==
    IF IsPositivePartner(negative_row, all_rows, current_index + 1) THEN Match(current_index + 1)
    ELSE IF IsPositivePartner(negative_row, all_rows, current_index - 1) THEN Match(current_index - 1)
    ELSE LET hits == {k \in 0..(Len(all_rows) - 1) : k # current_index /\ IsPositivePartner(negative_row, all_rows, k)}
         IN  IF hits = {} THEN NoMatch ELSE Match(CHOOSE k \in hits : \A j \in hits : k <= j)

find_corresponding_row(negative_row, all_rows, current_index) ==
    IF IsPositivePartner(negative_row, all_rows, current_index - 1) THEN Match(current_index - 1)
    ELSE IF IsPositivePartner(negative_row, all_rows, current_index + 1) THEN Match(current_index + 1)
    ELSE LET hits == {k \in 0..(Len(all_rows) - 1) : k # current_index /\ IsPositivePartner(negative_row, all_rows, k)}
         IN  IF hits = {} THEN NoMatch ELSE Match(CHOOSE k \in hits : \A j \in hits : k <= j)

find_corresponding_negative_row(positive_row, all_rows, current_index) ==
    IF IsNegativePartner(positive_row, all_rows, current_index - 1) THEN Match(current_index - 1)
    ELSE IF IsNegativePartner(positive_row, all_rows, current_index + 1) THEN Match(current_index + 1)
    ELSE NoMatch

combine_rows_NoCopy(negative_row, positive_row) ==
    LET final_amount == convert_german_number(positive_row.Amount) + convert_german_number(negative_row.Amount)
        final_total == convert_german_number(positive_row.TotalPrice) + convert_german_number(negative_row.TotalPrice)
        combined == [positive_row EXCEPT !.Amount = Replace(PyStr(final_amount), ".", ","),
                                         !.TotalPrice = Replace(PyStr(final_total), ".", ","),
                                         !.Price = positive_row.Price]
    IN  [combined |-> combined, negative_row |-> negative_row, positive_row |-> combined]

\* combine_rows: the new row, and the two argument rows as the call leaves them
combine_rows(negative_row, positive_row) ==
    LET final_amount == convert_german_number(positive_row.Amount) + convert_german_number(negative_row.Amount)
        final_total == convert_german_number(positive_row.TotalPrice) + convert_german_number(negative_row.TotalPrice)
    IN  [combined |-> [positive_row EXCEPT !.Amount = Replace(PyStr(final_amount), ".", ","),
                                           !.TotalPrice = Replace(PyStr(final_total), ".", ","),
                                           !.Price = positive_row.Price],
         negative_row |-> negative_row,
         positive_row |-> positive_row]

\* master data of the hosting system: Customer.custom_interne_kundennummer
CustomerDB == {K1, K2}

\* Customer.name of the record with that internal number
CustomerName(customer_nr) == <<"C", "-">> \o customer_nr

\* master data of the hosting system: Item.custom_externe_artikelnummer
ItemDB == {A1}

\* Item.name of the record with that external article number
ItemCode(article_nr) == <<"I", "-">> \o article_nr

\* Account records of the hosting system, by account identifier
AccountDB == [acc \in {<<"1", "7", "7", "6">>, <<"1", "7", "7", "5">>, <<"1", "7", "7", "4">>} |->
                 IF acc = <<"1", "7", "7", "6">> THEN [tax_rate |-> <<"7">>, rate |-> None, account_name |-> <<"U", "S", "t">>]
                 ELSE IF acc = <<"1", "7", "7", "5">> THEN [tax_rate |-> None, rate |-> None, account_name |-> <<"U", "S", "t", " ", "1", "6", " ", "%">>]
                 ELSE [tax_rate |-> None, rate |-> None, account_name |-> <<"U", "S", "t", " ", "%">>]]

\* the values of the settings field tax_account
TaxAccounts == {None, <<"1", "7", "7", "5">>}

SettingsDocs == [tax_account : TaxAccounts, nullrechnungen_unterdruecken : BOOLEAN]

\* end of the longest run of digits that starts at position k of s
RECURSIVE DigitRunEnd(_, _)
DigitRunEnd(s, k) == IF k <= Len(s) /\ IsDigit(s[k]) THEN DigitRunEnd(s, k + 1) ELSE k

\* end of the longest run of white space that starts at position k of s
RECURSIVE SpaceRunEnd(_, _)
SpaceRunEnd(s, k) == IF k <= Len(s) /\ IsSpace(s[k]) THEN SpaceRunEnd(s, k + 1) ELSE k

\* re.search(r'(\d+(?:\.\d+)?)\s*%', name): group 1 of the leftmost match, None without a match
RateMatch(name) ==
    LET e1(k) == DigitRunEnd(name, k)
        hasFrac(k) == e1(k) <= Len(name) /\ name[e1(k)] = "." /\ DigitRunEnd(name, e1(k) + 1) > e1(k) + 1
        e2(k) == DigitRunEnd(name, e1(k) + 1)
        pct(e) == SpaceRunEnd(name, e) <= Len(name) /\ name[SpaceRunEnd(name, e)] = "%"
        long(k) == hasFrac(k) /\ pct(e2(k))
        short(k) == pct(e1(k))
        hit(k) == IsDigit(name[k]) /\ (long(k) \/ short(k))
        starts == {k \in 1..Len(name) : hit(k)}
        k0 == CHOOSE k \in starts : \A j \in starts : k <= j
    IN  IF starts = {} THEN None
        ELSE IF long(k0) THEN SubSeq(name, k0, e2(k0) - 1) ELSE SubSeq(name, k0, e1(k0) - 1)

Truthy(v) == v # None /\ v # <<>> /\ flt(v) # 0

\* 19.0
DefaultTaxRate == 190

get_dynamic_tax_rate(settings_doc) ==
    IF settings_doc.tax_account = None THEN DefaultTaxRate
    ELSE IF settings_doc.tax_account \notin DOMAIN AccountDB THEN DefaultTaxRate
    ELSE LET account == AccountDB[settings_doc.tax_account]
         IN  IF Truthy(account.tax_rate) THEN flt(account.tax_rate)
             ELSE IF Truthy(account.rate) THEN flt(account.rate)
             ELSE IF RateMatch(account.account_name) # None THEN flt(RateMatch(account.account_name))
             ELSE DefaultTaxRate

Err(kind, line, customer, article) == [kind |-> kind, line |-> line, customer |-> customer, article |-> article]

RECURSIVE GroupRows_NoStrip(_, _, _)
GroupRows_NoStrip(todo, customer_data, errs) ==
    IF todo = <<>> THEN [customer_data |-> customer_data, errors |-> errs]
    ELSE LET row == Head(todo)
             customer_nr == row.CustomCustomerNr
             at == {k \in 1..Len(customer_data) : customer_data[k].customer_nr = customer_nr}
         IN  IF row.CustomCustomerNr = None
             THEN GroupRows_NoStrip(Tail(todo), customer_data, Append(errs, Err("Error grouping row", 0, <<>>, <<>>)))
             ELSE IF customer_nr = <<>>
             THEN GroupRows_NoStrip(Tail(todo), customer_data, Append(errs, Err("Missing CustomCustomerNr in row", 0, <<>>, <<>>)))
             ELSE IF at = {}
             THEN GroupRows_NoStrip(Tail(todo), Append(customer_data, [customer_nr |-> customer_nr, rows |-> <<row>>]), errs)
             ELSE GroupRows_NoStrip(Tail(todo), [customer_data EXCEPT ![CHOOSE k \in at : TRUE].rows = Append(@, row)], errs)

RECURSIVE GroupRows_Prepend(_, _, _)
GroupRows_Prepend(todo, customer_data, errs) ==
    IF todo = <<>> THEN [customer_data |-> customer_data, errors |-> errs]
    ELSE LET row == Head(todo)
             customer_nr == Strip(row.CustomCustomerNr)
             at == {k \in 1..Len(customer_data) : customer_data[k].customer_nr = customer_nr}
         IN  IF row.CustomCustomerNr = None
             THEN GroupRows_Prepend(Tail(todo), customer_data, Append(errs, Err("Error grouping row", 0, <<>>, <<>>)))
             ELSE IF customer_nr = <<>>
             THEN GroupRows_Prepend(Tail(todo), customer_data, Append(errs, Err("Missing CustomCustomerNr in row", 0, <<>>, <<>>)))
             ELSE IF at = {}
             THEN GroupRows_Prepend(Tail(todo), <<[customer_nr |-> customer_nr, rows |-> <<row>>]>> \o customer_data, errs)
             ELSE GroupRows_Prepend(Tail(todo), [customer_data EXCEPT ![CHOOSE k \in at : TRUE].rows = Append(@, row)], errs)

\* the grouping loop: customer_data as the list of (key, rows) in insertion order
RECURSIVE GroupRows(_, _, _)
GroupRows(todo, customer_data, errs) ==
    IF todo = <<>> THEN [customer_data |-> customer_data, errors |-> errs]
    ELSE LET row == Head(todo)
             customer_nr == Strip(row.CustomCustomerNr)
             at == {k \in 1..Len(customer_data) : customer_data[k].customer_nr = customer_nr}
         IN  IF row.CustomCustomerNr = None
             THEN GroupRows(Tail(todo), customer_data, Append(errs, Err("Error grouping row", 0, <<>>, <<>>)))
             ELSE IF customer_nr = <<>>
             THEN GroupRows(Tail(todo), customer_data, Append(errs, Err("Missing CustomCustomerNr in row", 0, <<>>, <<>>)))
             ELSE IF at = {}
             THEN GroupRows(Tail(todo), Append(customer_data, [customer_nr |-> customer_nr, rows |-> <<row>>]), errs)
             ELSE GroupRows(Tail(todo), [customer_data EXCEPT ![CHOOSE k \in at : TRUE].rows = Append(@, row)], errs)

RECURSIVE ValidateRows_ZeroQty(_, _, _, _)
ValidateRows_ZeroQty(todo, customer_nr, valid_rows, errs) ==
    IF todo = <<>> THEN [valid_rows |-> valid_rows, errors |-> errs, raised |-> FALSE]
    ELSE LET row == Head(todo)
             article_nr == Strip(row.ArticleNumber_Mandant)
             qty == convert_german_number(row.Amount)
         IN  IF row.ArticleNumber_Mandant = None THEN [valid_rows |-> valid_rows, errors |-> errs, raised |-> TRUE]
             ELSE IF article_nr = <<>> THEN ValidateRows_ZeroQty(Tail(todo), customer_nr, valid_rows, errs)
             ELSE IF article_nr \notin ItemDB
             THEN ValidateRows_ZeroQty(Tail(todo), customer_nr, valid_rows, Append(errs, Err("Item not found", 0, customer_nr, article_nr)))
             ELSE IF qty < 0
             THEN ValidateRows_ZeroQty(Tail(todo), customer_nr, valid_rows, Append(errs, Err("Invalid quantity", 0, customer_nr, article_nr)))
             ELSE ValidateRows_ZeroQty(Tail(todo), customer_nr, Append(valid_rows, row), errs)

\* the validation loop over one customer's rows; raised when .strip() meets None
RECURSIVE ValidateRows(_, _, _, _)
ValidateRows(todo, customer_nr, valid_rows, errs) ==
    IF todo = <<>> THEN [valid_rows |-> valid_rows, errors |-> errs, raised |-> FALSE]
    ELSE LET row == Head(todo)
             article_nr == Strip(row.ArticleNumber_Mandant)
             qty == convert_german_number(row.Amount)
         IN  IF row.ArticleNumber_Mandant = None THEN [valid_rows |-> valid_rows, errors |-> errs, raised |-> TRUE]
             ELSE IF article_nr = <<>> THEN ValidateRows(Tail(todo), customer_nr, valid_rows, errs)
             ELSE IF article_nr \notin ItemDB
             THEN ValidateRows(Tail(todo), customer_nr, valid_rows, Append(errs, Err("Item not found", 0, customer_nr, article_nr)))
             ELSE IF qty <= 0
             THEN ValidateRows(Tail(todo), customer_nr, valid_rows, Append(errs, Err("Invalid quantity", 0, customer_nr, article_nr)))
             ELSE ValidateRows(Tail(todo), customer_nr, Append(valid_rows, row), errs)

\* the item loop of create_wortmann_sales_invoice_safe
RECURSIVE BuildItems(_, _, _, _)
BuildItems(todo, customer_nr, items, errs) ==
    IF todo = <<>> THEN [items |-> items, errors |-> errs]
    ELSE LET row == Head(todo)
             article_nr == Strip(row.ArticleNumber_Mandant)
             qty == convert_german_number(row.Amount)
             rate == convert_german_number(row.Price)
             amt == convert_german_number(row.TotalPrice)
         IN  IF article_nr \notin ItemDB
             THEN BuildItems(Tail(todo), customer_nr, items, Append(errs, Err("Error adding item", 0, customer_nr, article_nr)))
             ELSE IF qty <= 0 THEN BuildItems(Tail(todo), customer_nr, items, errs)
             ELSE BuildItems(Tail(todo), customer_nr, Append(items, [item_code |-> ItemCode(article_nr), customer_item_code |-> article_nr, qty |-> qty, rate |-> rate, amount |-> amt]), errs)

\* sum of the numbers of a sequence
RECURSIVE SumSeq(_)
SumSeq(s) == IF s = <<>> THEN 0 ELSE Head(s) + SumSeq(Tail(s))

\* calculate_taxes_and_totals of the accounting system: net total of qty * rate
\* plus the tax lines on the net total (in units of 10^-5)
GrandTotal(items, taxes) == LET net == SumSeq([k \in 1..Len(items) |-> items[k].qty * items[k].rate])
                            IN  net * 1000 + net * SumSeq([k \in 1..Len(taxes) |-> taxes[k].rate])

NoInvoice == [customer |-> None]

create_wortmann_sales_invoice_safe_Negative(customer_nr, customer_rows, settings, errs) ==
    LET built == BuildItems(customer_rows, customer_nr, <<>>, errs)
        noTax == settings.tax_account = None
        taxes == IF noTax THEN <<>> ELSE <<[account_head |-> settings.tax_account, rate |-> get_dynamic_tax_rate(settings)]>>
        errs2 == IF noTax THEN Append(built.errors, Err("No tax account configured", 0, customer_nr, <<>>)) ELSE built.errors
        invoice == [customer |-> CustomerName(customer_nr), customer_nr |-> customer_nr, items |-> built.items, taxes |-> taxes, grand_total |-> GrandTotal(built.items, taxes)]
    IN  IF built.items = <<>> THEN [invoice |-> NoInvoice, errors |-> built.errors]
        ELSE IF settings.nullrechnungen_unterdruecken /\ invoice.grand_total < 0 THEN [invoice |-> NoInvoice, errors |-> errs2]
        ELSE [invoice |-> invoice, errors |-> errs2]

create_wortmann_sales_invoice_safe(customer_nr, customer_rows, settings, errs) ==
    LET built == BuildItems(customer_rows, customer_nr, <<>>, errs)
        noTax == settings.tax_account = None
        taxes == IF noTax THEN <<>> ELSE <<[account_head |-> settings.tax_account, rate |-> get_dynamic_tax_rate(settings)]>>
        errs2 == IF noTax THEN Append(built.errors, Err("No tax account configured", 0, customer_nr, <<>>)) ELSE built.errors
        invoice == [customer |-> CustomerName(customer_nr), customer_nr |-> customer_nr, items |-> built.items, taxes |-> taxes, grand_total |-> GrandTotal(built.items, taxes)]
    IN  IF built.items = <<>> THEN [invoice |-> NoInvoice, errors |-> built.errors]
        ELSE IF settings.nullrechnungen_unterdruecken /\ invoice.grand_total = 0 THEN [invoice |-> NoInvoice, errors |-> errs2]
        ELSE [invoice |-> invoice, errors |-> errs2]

VARIABLES
    pc,                     \* position in process_csv_import
    rows,                   \* rows = list(csv_reader)
    i,                      \* loop index of the reconciliation loop
    processed_rows,
    skip_indices,
    total_licenses_before,
    errors,
    origin,                 \* per processed row: the input indices it was made from
    visits,                 \* per input index: what the loop did with the row
    settings_doc,
    customer_data,          \* the dict of the grouping step, in insertion order
    ci,                     \* position of the invoice loop in customer_data
    invoices_created,
    total_licenses_after,
    successful_customers,
    invoices,               \* Sales Invoices persisted by invoice.insert
    result,                 \* return value of process_csv_import
    files,                  \* File documents persisted by save_csv_file_to_folder
    history,                \* persisted rows of wortmann_importhistorie
    results_log             \* persisted rows of wortmann_importergebnis

reconVars == <<rows, i, processed_rows, skip_indices, total_licenses_before, origin, visits>>

invoiceVars == <<customer_data, ci, invoices_created, total_licenses_after, successful_customers, invoices>>

storeVars == <<files, history, results_log>>

vars == <<pc, reconVars, errors, settings_doc, invoiceVars, result, storeVars>>

\* the file_name argument
file_name == <<"w", ".", "c", "s", "v">>

Init == /\ pc = "start"
        /\ rows = <<>>
        /\ i = 0
        /\ processed_rows = <<>>
        /\ skip_indices = {}
        /\ total_licenses_before = 0
        /\ errors = <<>>
        /\ origin = <<>>
        /\ visits = <<>>
        /\ settings_doc = None
        /\ customer_data = <<>>
        /\ ci = 0
        /\ invoices_created = 0
        /\ total_licenses_after = 0
        /\ successful_customers = <<>>
        /\ invoices = <<>>
        /\ result = [status |-> "running"]
        /\ files = <<>>
        /\ history = <<>>
        /\ results_log = <<>>

\* the return value of the outer except clause
Failed(e) == [status |-> "error", message |-> e]

\* frappe.get_doc raises: the settings document cannot be loaded
LoadSettingsFails == /\ pc = "start"
                     /\ result' = Failed("get_doc")
                     /\ pc' = "done"
                     /\ UNCHANGED <<reconVars, errors, settings_doc, invoiceVars, storeVars>>

\* the file is stored, then list(csv_reader) raises csv.Error
ParseFails == /\ pc = "start"
              /\ \E settings \in SettingsDocs : settings_doc' = settings
              /\ files' = Append(files, [file_name |-> file_name])
              /\ result' = Failed("csv")
              /\ pc' = "done"
              /\ UNCHANGED <<reconVars, errors, invoiceVars, history, results_log>>

\* settings loaded, file stored, rows = list(csv_reader)
ReadFile == /\ pc = "start"
            /\ \E settings \in SettingsDocs : settings_doc' = settings
            /\ files' = Append(files, [file_name |-> file_name])
            /\ \E parsed \in RowSeqs : rows' = parsed
            /\ pc' = "reconcile"
            /\ UNCHANGED <<i, processed_rows, skip_indices, total_licenses_before, origin, visits, errors, invoiceVars, result, history, results_log>>

AtRow == pc = "reconcile" /\ i < Len(rows)

amount == flt(Replace(RowAt(rows, i).Amount, ",", "."))

SkipRow_Processed == /\ AtRow
                     /\ i \in skip_indices
                     /\ i' = i + 1
                     /\ visits' = Append(visits, "skipped")
                     /\ processed_rows' = Append(processed_rows, RowAt(rows, i))
                     /\ origin' = Append(origin, [pos |-> i, neg |-> -1])
                     /\ UNCHANGED <<pc, rows, skip_indices, total_licenses_before, errors, settings_doc, invoiceVars, result, storeVars>>

\* if i in skip_indices: continue
SkipRow == /\ AtRow
           /\ i \in skip_indices
           /\ i' = i + 1
           /\ visits' = Append(visits, "skipped")
           /\ UNCHANGED <<pc, rows, processed_rows, skip_indices, total_licenses_before, errors, origin, settings_doc, invoiceVars, result, storeVars>>

RowRaises_Abort == /\ AtRow
                   /\ i \notin skip_indices
                   /\ RowAt(rows, i).Amount = None
                   /\ result' = [status |-> "error", message |-> "row"]
                   /\ pc' = "done"
                   /\ UNCHANGED <<reconVars, errors, settings_doc, invoiceVars, storeVars>>

\* row.get('Amount', '0') is None: .replace raises, the except clause logs the row
RowRaises == /\ AtRow
             /\ i \notin skip_indices
             /\ RowAt(rows, i).Amount = None
             /\ errors' = Append(errors, Err("Error processing row", i + 2, <<>>, <<>>))
             /\ i' = i + 1
             /\ visits' = Append(visits, "raised")
             /\ UNCHANGED <<pc, rows, processed_rows, skip_indices, total_licenses_before, origin, settings_doc, invoiceVars, result, storeVars>>

NegativeRow == /\ AtRow
               /\ i \notin skip_indices
               /\ RowAt(rows, i).Amount # None
               /\ amount < 0
               /\ total_licenses_before' = total_licenses_before + Abs(amount)
               /\ LET corresponding_row == find_corresponding_row(RowAt(rows, i), rows, i)
                      corresponding_index == corresponding_row.index
                      c == combine_rows(RowAt(rows, i), RowAt(rows, corresponding_index))
                  IN  IF corresponding_row.found
                      THEN /\ processed_rows' = Append(processed_rows, c.combined)
                           /\ skip_indices' = skip_indices \cup {corresponding_index}
                           /\ rows' = [rows EXCEPT ![i + 1] = c.negative_row, ![corresponding_index + 1] = c.positive_row]
                           /\ origin' = Append(origin, [pos |-> corresponding_index, neg |-> i])
                           /\ visits' = Append(visits, "merged")
                           /\ UNCHANGED errors
                      ELSE /\ errors' = Append(errors, Err("No corresponding positive row", i + 2, <<>>, <<>>))
                           /\ visits' = Append(visits, "unmatched")
                           /\ UNCHANGED <<rows, processed_rows, skip_indices, origin>>
               /\ i' = i + 1
               /\ UNCHANGED <<pc, settings_doc, invoiceVars, result, storeVars>>

PositiveRow == /\ AtRow
               /\ i \notin skip_indices
               /\ RowAt(rows, i).Amount # None
               /\ amount >= 0
               /\ total_licenses_before' = total_licenses_before + Abs(amount)
               /\ LET corresponding_negative == find_corresponding_negative_row(RowAt(rows, i), rows, i)
                  IN  IF corresponding_negative.found /\ corresponding_negative.index \notin skip_indices
                      THEN /\ visits' = Append(visits, "deferred")
                           /\ UNCHANGED <<processed_rows, origin>>
                      ELSE /\ processed_rows' = Append(processed_rows, RowAt(rows, i))
                           /\ origin' = Append(origin, [pos |-> i, neg |-> -1])
                           /\ visits' = Append(visits, "standalone")
               /\ i' = i + 1
               /\ UNCHANGED <<pc, rows, skip_indices, errors, settings_doc, invoiceVars, result, storeVars>>

\* the grouping loop, entered when the reconciliation loop has run out of rows
GroupByCustomer == /\ pc = "reconcile"
                   /\ i = Len(rows)
                   /\ LET g == GroupRows(processed_rows, <<>>, errors)
                      IN  /\ customer_data' = g.customer_data
                          /\ errors' = g.errors
                   /\ pc' = "invoice"
                   /\ UNCHANGED <<reconVars, settings_doc, ci, invoices_created, total_licenses_after, successful_customers, invoices, result, storeVars>>

AtCustomer == pc = "invoice" /\ ci < Len(customer_data)

CustomerNr == customer_data[ci + 1].customer_nr

CustomerRows == customer_data[ci + 1].rows

CustomerNotFound_Break == /\ AtCustomer
                          /\ CustomerNr \notin CustomerDB
                          /\ errors' = Append(errors, Err("Customer not found", 0, CustomerNr, <<>>))
                          /\ ci' = Len(customer_data)
                          /\ UNCHANGED <<pc, reconVars, settings_doc, customer_data, invoices_created, total_licenses_after, successful_customers, invoices, result, storeVars>>

\* if not customer: log the customer and continue
CustomerNotFound == /\ AtCustomer
                    /\ CustomerNr \notin CustomerDB
                    /\ errors' = Append(errors, Err("Customer not found", 0, CustomerNr, <<>>))
                    /\ ci' = ci + 1
                    /\ UNCHANGED <<pc, reconVars, settings_doc, customer_data, invoices_created, total_licenses_after, successful_customers, invoices, result, storeVars>>

\* the validation loop leaves no valid row (or raises, which the except clause logs)
NoValidRows == /\ AtCustomer
               /\ CustomerNr \in CustomerDB
               /\ LET v == ValidateRows(CustomerRows, CustomerNr, <<>>, errors)
                  IN  /\ v.raised \/ v.valid_rows = <<>>
                      /\ errors' = Append(v.errors, Err(IF v.raised THEN "Error processing customer" ELSE "No valid items found", 0, CustomerNr, <<>>))
               /\ ci' = ci + 1
               /\ UNCHANGED <<pc, reconVars, settings_doc, customer_data, invoices_created, total_licenses_after, successful_customers, invoices, result, storeVars>>

CreateInvoice_CountsDiscarded ==
    /\ AtCustomer
    /\ CustomerNr \in CustomerDB
    /\ LET v == ValidateRows(CustomerRows, CustomerNr, <<>>, errors)
           made == create_wortmann_sales_invoice_safe(CustomerNr, v.valid_rows, settings_doc, v.errors)
       IN  /\ ~v.raised /\ v.valid_rows # <<>>
           /\ errors' = made.errors
           /\ invoices_created' = invoices_created + 1
           /\ IF made.invoice # NoInvoice
              THEN /\ invoices' = Append(invoices, made.invoice)
                   /\ successful_customers' = Append(successful_customers, CustomerNr)
                   /\ total_licenses_after' = total_licenses_after + SumSeq([k \in 1..Len(made.invoice.items) |-> made.invoice.items[k].qty])
              ELSE UNCHANGED <<total_licenses_after, successful_customers, invoices>>
    /\ ci' = ci + 1
    /\ UNCHANGED <<pc, reconVars, settings_doc, customer_data, result, storeVars>>

\* if valid_rows: the invoice is assembled and, unless discarded, persisted and counted
CreateInvoice == /\ AtCustomer
                 /\ CustomerNr \in CustomerDB
                 /\ LET v == ValidateRows(CustomerRows, CustomerNr, <<>>, errors)
                        made == create_wortmann_sales_invoice_safe(CustomerNr, v.valid_rows, settings_doc, v.errors)
                    IN  /\ ~v.raised /\ v.valid_rows # <<>>
                        /\ errors' = made.errors
                        /\ IF made.invoice # NoInvoice
                           THEN /\ invoices' = Append(invoices, made.invoice)
                                /\ invoices_created' = invoices_created + 1
                                /\ successful_customers' = Append(successful_customers, CustomerNr)
                                /\ total_licenses_after' = total_licenses_after + SumSeq([k \in 1..Len(made.invoice.items) |-> made.invoice.items[k].qty])
                           ELSE UNCHANGED <<invoices_created, total_licenses_after, successful_customers, invoices>>
                 /\ ci' = ci + 1
                 /\ UNCHANGED <<pc, reconVars, settings_doc, customer_data, result, storeVars>>

\* the report as the list of its parts
generate_wortmann_report(licenses_before, licenses_after, created, errs, customers) ==
    <<[label |-> "Gesamtzahl Lizenzen vorher", value |-> licenses_before],
      [label |-> "Gesamtzahl Lizenzen nachher", value |-> licenses_after],
      [label |-> "Gesamtzahl erz. Rechnungen", value |-> created]>>
    \o (IF customers # <<>> THEN <<[label |-> "Erfolgreiche Kunden", value |-> customers]>> ELSE <<>>)
    \o (IF errs # <<>> THEN <<[label |-> "Fehler", value |-> Len(errs)]>> \o [k \in 1..Len(errs) |-> [label |-> "-", value |-> errs[k]]] ELSE <<>>)

\* report, history and result rows, save and return value, once the invoice
\* loop has run out of customers
Finish == /\ pc = "invoice"
          /\ ci = Len(customer_data)
          /\ LET report == generate_wortmann_report(total_licenses_before, total_licenses_after, invoices_created, errors, successful_customers)
             IN  /\ history' = Append(history, [name_der_csv |-> files[Len(files)].file_name])
                 /\ results_log' = Append(results_log, [name_der_csv |-> files[Len(files)].file_name, importergebnis |-> report])
                 /\ result' = [status |-> "success", invoices_created |-> invoices_created, errors_count |-> Len(errors), report |-> report]
          /\ pc' = "done"
          /\ UNCHANGED <<reconVars, errors, settings_doc, invoiceVars, files>>

\* settings_doc.save() raises: the history and result rows are not stored
SaveFails == /\ pc = "invoice"
             /\ ci = Len(customer_data)
             /\ result' = Failed("save")
             /\ pc' = "done"
             /\ UNCHANGED <<reconVars, errors, settings_doc, invoiceVars, storeVars>>

Next == \/ LoadSettingsFails
        \/ ParseFails
        \/ ReadFile
        \/ SkipRow
        \/ RowRaises
        \/ NegativeRow
        \/ PositiveRow
        \/ GroupByCustomer
        \/ CustomerNotFound
        \/ NoValidRows
        \/ CreateInvoice
        \/ Finish
        \/ SaveFails

Spec == Init /\ [][Next]_vars

(***************************************************************************)
(* Properties of the reconciliation loop                                   *)
(***************************************************************************)

ReconcileDone == pc \in {"invoice", "done"} /\ rows # <<>>

\* the number of input rows the loop treated in the given way
Count(tag) == Cardinality({k \in 1..Len(visits) : visits[k] = tag})

C2_Deduplicated == \A a, b \in 1..Len(origin) : a # b => origin[a].pos # origin[b].pos /\ (origin[a].neg # -1 => origin[a].neg # origin[b].neg)

\* C3: with parsable amounts, the licenses-before total after the loop is the
\* sum of abs(Amount) over all input rows, whatever the order of the rows.
C3_LicensesBefore == (ReconcileDone /\ \A k \in 1..Len(rows) : rows[k].Amount # None)
                         => total_licenses_before = SumSeq([k \in 1..Len(rows) |-> Abs(convert_german_number(rows[k].Amount))])

\* the match key of a row, field by field
HasKeyOf(a, b) == a.CustomCustomerNr = b.CustomCustomerNr /\ a.ReferenceNumber = b.ReferenceNumber /\ a.ArticleNumber_Mandant = b.ArticleNumber_Mandant

\* a negative row no other row of the file can be netted against
Orphan(index) == /\ convert_german_number(RowAt(rows, index).Amount) < 0
                 /\ \A k \in 0..(Len(rows) - 1) : k # index => ~(HasKeyOf(RowAt(rows, k), RowAt(rows, index)) /\ convert_german_number(RowAt(rows, k).Amount) > 0)

\* C4: a negative row without any positive row of the same key in the file
\* appends exactly one error, naming line index+2, and contributes no row,
\* neither itself nor a merged one, to the reconciled list.
C4_OrphanNegative == \A index \in 0..(i - 1) : Orphan(index) =>
                         /\ Cardinality({e \in 1..Len(errors) : errors[e].line = index + 2}) = 1
                         /\ \E e \in 1..Len(errors) : errors[e] = Err("No corresponding positive row", index + 2, <<>>, <<>>)
                         /\ \A k \in 1..Len(origin) : origin[k].neg # index /\ origin[k].pos # index

C4_Witness == ReconcileDone /\ Len(rows) = 3 /\ Orphan(1) /\ Len(processed_rows) = 2 /\ convert_german_number(RowAt(rows, 0).Amount) > 0

\* C5: every merge pairs a row with Amount < 0 with a different row with
\* Amount > 0 and the same key; two negative rows, or a row with Amount = 0,
\* are never merged.
C5_MergePairs == \A k \in 1..Len(origin) : origin[k].neg # -1 =>
                     /\ origin[k].pos # origin[k].neg
                     /\ convert_german_number(RowAt(rows, origin[k].neg).Amount) < 0
                     /\ convert_german_number(RowAt(rows, origin[k].pos).Amount) > 0
                     /\ HasKeyOf(RowAt(rows, origin[k].neg), RowAt(rows, origin[k].pos))

C5_Witness == /\ ReconcileDone /\ Count("merged") = 1 /\ Len(rows) = 3
              /\ \E a, b \in 0..(Len(rows) - 1) : a # b /\ HasKeyOf(RowAt(rows, a), RowAt(rows, b)) /\ convert_german_number(RowAt(rows, a).Amount) < 0 /\ convert_german_number(RowAt(rows, b).Amount) = 0

\* a reconciled row made by a merge nets the two rows it was made from
NetOf(combined, positive_row, negative_row) ==
    /\ convert_german_number(combined.Amount) = convert_german_number(positive_row.Amount) + convert_german_number(negative_row.Amount)
    /\ convert_german_number(combined.TotalPrice) = convert_german_number(positive_row.TotalPrice) + convert_german_number(negative_row.TotalPrice)
    /\ combined.Price = positive_row.Price
    /\ HasKeyOf(combined, positive_row)

MergedRowsAreNet == \A k \in 1..Len(origin) : origin[k].neg # -1 => NetOf(processed_rows[k], RowAt(rows, origin[k].pos), RowAt(rows, origin[k].neg))

\* a file of exactly a charge row and its correction row, in either order
AdjacentPair == /\ Len(rows) = 2
                /\ HasKeyOf(rows[1], rows[2])
                /\ \E p, n \in 1..2 : convert_german_number(rows[p].Amount) > 0 /\ convert_german_number(rows[n].Amount) < 0

PairYieldsOneRow == (ReconcileDone /\ AdjacentPair) =>
                        /\ Len(processed_rows) = 1
                        /\ convert_german_number(processed_rows[1].Amount) = convert_german_number(rows[1].Amount) + convert_german_number(rows[2].Amount)

\* C6: combine_rows returns a copy of the positive row with Amount and
\* TotalPrice the sums of the two rows' and Price the positive row's, and
\* leaves both rows as they were; a charge row next to its correction row
\* yields exactly one reconciled row, with the net Amount.
C6_CombineRows == [](MergedRowsAreNet /\ PairYieldsOneRow) /\ [][pc = "reconcile" => rows' = rows]_vars

C6_Witness == /\ ReconcileDone /\ AdjacentPair /\ Len(processed_rows) = 1
              /\ processed_rows[1].Amount = <<"1", ",", "5">>
              /\ processed_rows[1].TotalPrice = <<"4", ",", "5">>
              /\ convert_german_number(RowAt(rows, 0).Amount) > 0

(***************************************************************************)
(* Properties of the invoice loop                                          *)
(***************************************************************************)

\* a row the validation loop keeps: its article resolves and its quantity is positive
ValidRow(row) == Strip(row.ArticleNumber_Mandant) \in ItemDB /\ convert_german_number(row.Amount) > 0

\* a row the validation loop logs and drops
RejectedRow(row) == Strip(row.ArticleNumber_Mandant) # <<>> /\ ~ValidRow(row)

Readable(bucket) == \A k \in 1..Len(bucket.rows) : bucket.rows[k].ArticleNumber_Mandant # None

Billable(bucket) == Readable(bucket) /\ \E k \in 1..Len(bucket.rows) : ValidRow(bucket.rows[k])

\* the net total of the rows the validation loop keeps is zero
ZeroTotal(bucket) == SumSeq([k \in 1..Len(bucket.rows) |-> IF ValidRow(bucket.rows[k]) THEN convert_german_number(bucket.rows[k].Amount) * convert_german_number(bucket.rows[k].Price) ELSE 0]) = 0

Suppressed(bucket) == settings_doc.nullrechnungen_unterdruecken /\ ZeroTotal(bucket)

InvoicesOf(customer_nr) == {k \in 1..Len(invoices) : invoices[k].customer_nr = customer_nr}

ErrorsOf(customer_nr) == {e \in 1..Len(errors) : errors[e].customer = customer_nr}

\* the buckets the invoice loop is through with
Handled == 1..ci

UnknownHandled == \A k \in Handled : customer_data[k].customer_nr \notin CustomerDB =>
                      /\ InvoicesOf(customer_data[k].customer_nr) = {}
                      /\ Cardinality(ErrorsOf(customer_data[k].customer_nr)) = 1
                      /\ \A e \in ErrorsOf(customer_data[k].customer_nr) : errors[e].kind = "Customer not found"

OthersInvoiced == /\ pc = "done" => ci = Len(customer_data)
                  /\ \A k \in Handled : (customer_data[k].customer_nr \in CustomerDB /\ Billable(customer_data[k]) /\ ~Suppressed(customer_data[k]))
                                            => Cardinality(InvoicesOf(customer_data[k].customer_nr)) = 1

UnknownStep == (AtCustomer /\ CustomerNr \notin CustomerDB) => invoices_created' = invoices_created /\ invoices' = invoices /\ successful_customers' = successful_customers

\* C7: a bucket whose identifier resolves to no customer record produces no
\* invoice and exactly one error, which mentions the identifier, leaves
\* invoices_created as it was, and the buckets of the other customers, before
\* and after it, are still validated and invoiced.
C7_UnknownCustomer == [](UnknownHandled /\ OthersInvoiced) /\ [][UnknownStep]_vars

C7_Witness == /\ pc = "done" /\ Len(customer_data) = 3 /\ customer_data[2].customer_nr = ZZZ
              /\ successful_customers = <<K1, K2>> /\ Len(invoices) = 2 /\ Cardinality(ErrorsOf(ZZZ)) = 1

\* C8: an invoice exists only for a resolved customer with at least one row
\* whose article resolves and whose quantity is positive; every line of it has
\* a positive quantity and a resolved item; a customer left with no valid row
\* gets one "No valid items found" error and no invoice.
C8_ValidInvoices == /\ \A n \in 1..Len(invoices) :
                           /\ invoices[n].customer_nr \in CustomerDB
                           /\ \E k \in Handled : customer_data[k].customer_nr = invoices[n].customer_nr /\ Billable(customer_data[k])
                           /\ invoices[n].items # <<>>
                           /\ \A m \in 1..Len(invoices[n].items) :
                                  /\ invoices[n].items[m].qty > 0
                                  /\ invoices[n].items[m].customer_item_code \in ItemDB
                                  /\ invoices[n].items[m].item_code = ItemCode(invoices[n].items[m].customer_item_code)
                    /\ \A k \in Handled : (customer_data[k].customer_nr \in CustomerDB /\ Readable(customer_data[k]) /\ ~Billable(customer_data[k])) =>
                           /\ InvoicesOf(customer_data[k].customer_nr) = {}
                           /\ Cardinality({e \in ErrorsOf(customer_data[k].customer_nr) : errors[e].kind = "No valid items found"}) = 1

C8_Witness == /\ pc = "done" /\ Len(customer_data) = 2 /\ Len(invoices) = 1 /\ Len(invoices[1].items) = 1
              /\ \E k \in Handled : customer_data[k].customer_nr \in CustomerDB /\ ~Billable(customer_data[k])
              /\ \E e \in 1..Len(errors) : errors[e].kind = "Invalid quantity"
              /\ \E e \in 1..Len(errors) : errors[e].kind = "No valid items found"

\* C9: every persisted invoice carries exactly one tax line, whose rate is that
\* of the tax rate resolver, 19.0 when no tax account is configured.
C9_OneTaxLine == \A n \in 1..Len(invoices) :
                     /\ Len(invoices[n].taxes) = 1
                     /\ invoices[n].taxes[1].rate = get_dynamic_tax_rate(settings_doc)
                     /\ settings_doc.tax_account = None => invoices[n].taxes[1].rate = 190

DiscardKinds == {"Item not found", "Invalid quantity", "No tax account configured"}

DiscardStep == (AtCustomer /\ CustomerNr \in CustomerDB /\ Billable(customer_data[ci + 1]) /\ Suppressed(customer_data[ci + 1])) =>
                   /\ invoices' = invoices
                   /\ successful_customers' = successful_customers
                   /\ invoices_created' = invoices_created
                   /\ Len(errors') >= Len(errors) /\ SubSeq(errors', 1, Len(errors)) = errors
                   /\ Len(errors') - Len(errors) = Cardinality({k \in 1..Len(CustomerRows) : RejectedRow(CustomerRows[k])}) + (IF settings_doc.tax_account = None THEN 1 ELSE 0)
                   /\ \A e \in (Len(errors) + 1)..Len(errors') : errors'[e].kind \in DiscardKinds

\* C10: with suppress-zero-invoices on and a computed grand total of zero the
\* invoice is not persisted, the customer is not added to the successful
\* customers, invoices_created is not incremented, and the discard appends no
\* error: the only errors of the step are those of the rows the validation
\* dropped and of a missing tax account.
C10_ZeroSuppressed == [][DiscardStep]_vars

C10_Witness == /\ ci = 1 /\ pc = "invoice" /\ customer_data[1].customer_nr \in CustomerDB
               /\ Billable(customer_data[1]) /\ Suppressed(customer_data[1])
               /\ settings_doc.tax_account # None
               /\ invoices = <<>> /\ invoices_created = 0 /\ errors = <<>>

(***************************************************************************)
(* Properties of the whole import                                          *)
(***************************************************************************)

\* C11: when process_csv_import ends with status 'error' the result carries
\* no report and the invocation has persisted nothing: no stored CSV file, no
\* invoice, no history row and no result row.
C11_ErrorPersistsNothing == result.status = "error" =>
                                /\ "report" \notin DOMAIN result
                                /\ files = <<>>
                                /\ invoices = <<>>
                                /\ history = <<>>
                                /\ results_log = <<>>

\* a reconciled row whose customer number is blank or only white space
BlankCustomer(row) == row.CustomCustomerNr # None /\ \A k \in 1..Len(row.CustomCustomerNr) : row.CustomCustomerNr[k] = " "

\* the reconciled rows that belong under the given key, in their order
RowsOfKey(key) == SelectSeq(processed_rows, LAMBDA row : row.CustomCustomerNr # None /\ ~BlankCustomer(row) /\ Strip(row.CustomCustomerNr) = key)

MissingCustomerErrors == {e \in 1..Len(errors) : errors[e].kind = "Missing CustomCustomerNr in row"}

\* C12: in the grouping step every reconciled row with a blank or
\* white-space-only CustomCustomerNr appends one error and is in no bucket;
\* every other row is in exactly the bucket keyed by its trimmed
\* CustomCustomerNr; no bucket has an empty key and there is no default bucket.
C12_Grouping == ReconcileDone =>
                    /\ Cardinality(MissingCustomerErrors) = Cardinality({k \in 1..Len(processed_rows) : BlankCustomer(processed_rows[k])})
                    /\ \A b \in 1..Len(customer_data) :
                           /\ customer_data[b].customer_nr # <<>>
                           /\ customer_data[b].customer_nr[1] # " " /\ customer_data[b].customer_nr[Len(customer_data[b].customer_nr)] # " "
                           /\ customer_data[b].rows # <<>>
                           /\ customer_data[b].rows = RowsOfKey(customer_data[b].customer_nr)
                    /\ \A a, b \in 1..Len(customer_data) : a # b => customer_data[a].customer_nr # customer_data[b].customer_nr
                    /\ \A k \in 1..Len(processed_rows) : (processed_rows[k].CustomCustomerNr # None /\ ~BlankCustomer(processed_rows[k]))
                           => \E b \in 1..Len(customer_data) : customer_data[b].customer_nr = Strip(processed_rows[k].CustomCustomerNr)

C12_Witness == /\ ReconcileDone /\ Len(processed_rows) = 3 /\ Cardinality(MissingCustomerErrors) = 1
               /\ Len(customer_data) = 1 /\ customer_data[1].customer_nr = K2
               /\ BlankCustomer(processed_rows[2]) /\ Len(customer_data[1].rows) = 2

\* C13: every row with Amount >= 0 that the reconciliation loop defers to an
\* adjacent negative row is, by the time the loop ends, in the reconciled
\* list as the positive side of a merged row; no deferred row is lost.
C13_DeferredEmitted == ReconcileDone => \A index \in 0..(Len(visits) - 1) : visits[index + 1] = "deferred" =>
                           \E k \in 1..Len(origin) : origin[k].pos = index /\ origin[k].neg # -1

\* row k of the file is another row than row index, with the same key and Amount > 0
PositiveAt(index, k) == /\ 0 <= k /\ k < Len(rows) /\ k # index
                        /\ HasKeyOf(RowAt(rows, k), RowAt(rows, index))
                        /\ convert_german_number(RowAt(rows, k).Amount) > 0

\* row k of the file is another row than row index, with the same key and Amount < 0
NegativeAt(index, k) == /\ 0 <= k /\ k < Len(rows) /\ k # index
                        /\ HasKeyOf(RowAt(rows, k), RowAt(rows, index))
                        /\ convert_german_number(RowAt(rows, k).Amount) < 0

\* the positive partner the matcher is to return for row index, -1 for none
ExpectedPositive(index) == IF PositiveAt(index, index - 1) THEN index - 1
                           ELSE IF PositiveAt(index, index + 1) THEN index + 1
                           ELSE IF \E k \in 0..(Len(rows) - 1) : PositiveAt(index, k)
                           THEN CHOOSE k \in 0..(Len(rows) - 1) : PositiveAt(index, k) /\ \A j \in 0..(k - 1) : ~PositiveAt(index, j)
                           ELSE -1

\* the negative partner the matcher is to return for row index, -1 for none
ExpectedNegative(index) == IF NegativeAt(index, index - 1) THEN index - 1
                           ELSE IF NegativeAt(index, index + 1) THEN index + 1
                           ELSE -1

AsMatch(index) == IF index = -1 THEN NoMatch ELSE Match(index)

\* both matchers, applied to the row the loop is at
MatchersAtRow == AtRow => /\ find_corresponding_row(RowAt(rows, i), rows, i) = AsMatch(ExpectedPositive(i))
                          /\ find_corresponding_negative_row(RowAt(rows, i), rows, i) = AsMatch(ExpectedNegative(i))

\* what the loop did with each row agrees with the matchers' contract
VisitsFollowMatchers == \A index \in 0..(Len(visits) - 1) :
                            /\ visits[index + 1] = "merged" => \E k \in 1..Len(origin) : origin[k].neg = index /\ origin[k].pos = ExpectedPositive(index)
                            /\ visits[index + 1] = "unmatched" => ExpectedPositive(index) = -1
                            /\ visits[index + 1] = "deferred" => ExpectedNegative(index) # -1
                            /\ visits[index + 1] = "standalone" => ExpectedNegative(index) = -1

RaisingRow == AtRow /\ i \notin skip_indices /\ RowAt(rows, i).Amount = None

\* the step taken at a raising row: one error for line i + 2, nothing else but the loop position moves
RaiseStep == RaisingRow => /\ errors' = Append(errors, Err("Error processing row", i + 2, <<>>, <<>>))
                           /\ processed_rows' = processed_rows /\ origin' = origin
                           /\ skip_indices' = skip_indices /\ rows' = rows
                           /\ i' = i + 1 /\ pc' = "reconcile" /\ result' = result

\* every row of the file was reached, and each row after a raising one was handled by the matchers' outcome alone
LaterRowsProcessed == ReconcileDone =>
                          /\ Len(visits) = Len(rows)
                          /\ \A index \in 0..(Len(rows) - 1) :
                                 visits[index + 1] = "raised" <=> (RowAt(rows, index).Amount = None /\ ~\E k \in 1..Len(origin) : origin[k].pos = index /\ origin[k].neg # -1)

\* the run ends with success unless the final save of the settings fails
EndsWithSuccess == (pc = "done" /\ rows # <<>> /\ Count("raised") > 0) =>
                       \/ result.status = "success"
                       \/ result = Failed("save")

\* C15: when the processing of row i raises during reconciliation, exactly one
\* error naming line i+2 is appended, the row adds nothing to the reconciled
\* list, every later row that is not skipped is still processed, and the
\* import ends with status 'success'.
C15_RowRaises == [](LaterRowsProcessed /\ EndsWithSuccess) /\ [][RaiseStep]_vars

C15_Witness == /\ pc = "done" /\ result.status = "success"
               /\ Len(rows) = 3 /\ visits = <<"raised", "standalone", "standalone">>
               /\ errors # <<>> /\ errors[1] = Err("Error processing row", 2, <<>>, <<>>)
               /\ Len(processed_rows) = 2
               /\ Len(invoices) = 1

\* the input index at which reconciled row k was produced: the negative row's for a merge, the row's own otherwise
ProducedAt(k) == IF origin[k].neg # -1 THEN origin[k].neg ELSE origin[k].pos

EmittedAscending == /\ Len(origin) = Len(processed_rows)
                    /\ \A k \in 1..Len(origin) : \A m \in 1..Len(origin) : k < m => ProducedAt(k) < ProducedAt(m)

\* the first position of the reconciled list that holds a row of the customer
FirstAt(key) == CHOOSE k \in 1..Len(processed_rows) :
                    /\ ~BlankCustomer(processed_rows[k]) /\ Strip(processed_rows[k].CustomCustomerNr) = key
                    /\ \A j \in 1..(k - 1) : BlankCustomer(processed_rows[j]) \/ Strip(processed_rows[j].CustomCustomerNr) # key

BucketsInOrder == ReconcileDone =>
                      /\ \A b \in 1..Len(customer_data) : customer_data[b].rows = RowsOfKey(customer_data[b].customer_nr)
                      /\ \A b \in 1..Len(customer_data) : \A c \in 1..Len(customer_data) :
                             b < c => FirstAt(customer_data[b].customer_nr) < FirstAt(customer_data[c].customer_nr)
                      /\ GroupRows(processed_rows, <<>>, <<>>).customer_data = customer_data

\* the bucket a customer identifier belongs to
BucketOf(key) == CHOOSE b \in 1..Len(customer_data) : customer_data[b].customer_nr = key

InvoicedInOrder == pc \in {"invoice", "done"} =>
                       /\ Len(invoices) = Len(successful_customers)
                       /\ \A k \in 1..Len(successful_customers) :
                              /\ invoices[k].customer_nr = successful_customers[k]
                              /\ \E b \in 1..ci : customer_data[b].customer_nr = successful_customers[k]
                              /\ \A m \in 1..Len(successful_customers) :
                                     k < m => BucketOf(successful_customers[k]) < BucketOf(successful_customers[m])

\* the invoice loop takes the buckets one by one, from the first
CustomerStep == (pc = "invoice" /\ pc' = "invoice") =>
                    /\ ci' = ci + 1 /\ customer_data' = customer_data
                    /\ \/ successful_customers' = successful_customers
                       \/ successful_customers' = Append(successful_customers, customer_data[ci + 1].customer_nr)

\* C16: reconciled rows are emitted in ascending order of the input index that
\* produces them, a bucket keeps its rows in the order of the reconciled list,
\* customers are validated and invoiced in order of first appearance in the
\* reconciled list, and grouping the same reconciled list again gives the same
\* buckets in the same order.
C16_Ordering == [](EmittedAscending /\ BucketsInOrder /\ InvoicedInOrder) /\ [][CustomerStep]_vars

C16_Witness == /\ pc = "done" /\ result.status = "success"
               /\ Len(processed_rows) = 3 /\ Len(customer_data) = 2
               /\ customer_data[1].rows = <<processed_rows[1], processed_rows[3]>>
               /\ customer_data[2].rows = <<processed_rows[2]>>
               /\ successful_customers = <<customer_data[1].customer_nr, customer_data[2].customer_nr>>

\* the error entries the report renders, one bullet each
RenderedErrors(report) == {k \in 1..Len(report) : report[k].label = "-"}

CountersAgree == pc \in {"invoice", "done"} =>
                     /\ invoices_created = Len(successful_customers)
                     /\ invoices_created = Len(invoices)
                     /\ \A k \in 1..Len(successful_customers) : \A m \in 1..Len(successful_customers) :
                            k # m => successful_customers[k] # successful_customers[m]

ResultAgrees == (pc = "done" /\ result.status = "success") =>
                    /\ result.invoices_created = Len(successful_customers)
                    /\ result.invoices_created = Len(invoices)
                    /\ result.errors_count = Cardinality(RenderedErrors(result.report))

\* C17: throughout the invoice loop and in the returned result, invoices_created
\* is the length of successful_customers and the number of invoices persisted
\* by the run, no customer identifier occurs twice in successful_customers, and
\* the returned errors_count is the number of error entries of the report.
C17_Counters == CountersAgree /\ ResultAgrees

C17_Witness == /\ pc = "done" /\ result.status = "success"
               /\ Len(customer_data) = 2 /\ ci = 2
               /\ \A b \in 1..2 : customer_data[b].customer_nr \in CustomerDB
               /\ invoices_created = 1 /\ Len(invoices) = 1
               /\ result.errors_count >= 1

====
